---- MODULE Spec2Model ----
(***************************************************************************)
(* Lights Out, Shapeshifter and Sudoku as integer linear programs:         *)
(* the constraint generators, the drivers and the solution mappers of      *)
(* lp_lightsout.py, lp_shapeshifter.py and lp_sudoku.py.                   *)
(* The ILP solver is the external collaborator: it answers "Optimal" with  *)
(* an assignment that satisfies every constraint it was given (and, for    *)
(* Lights Out, minimises the objective), and "Infeasible" when there is    *)
(* none.                                                                   *)
(***************************************************************************)
EXTENDS Integers, Sequences, FiniteSets, TLC

VARIABLES
    m, n,       \* lp_lightsout: the module-level m, n that hit_light reads
    moves,      \* lp_lightsout: third argument of generate_board
    pressed,    \* lp_lightsout: iterations of generate_board's loop so far
    board,      \* lp_lightsout: the board, row -> column -> 0/1
    solution,   \* lp_lightsout: what solve returned (None or a dict)
    printed,    \* lp_lightsout: "This board is unsolvable." was printed
    works,      \* lp_lightsout: what apply_solution returned
    lpc,        \* lp_lightsout: position of the driver
    sboard,     \* lp_shapeshifter: the board, mutated in place by apply_piece
    board0,     \* lp_shapeshifter: the board as solve received it
    pieces,     \* lp_shapeshifter: the pieces, pid -> row -> column -> 0/1
    flips,      \* lp_shapeshifter: the modulus
    status,     \* lp_shapeshifter: LpStatus[prob.status]
    ones,       \* lp_shapeshifter: the variables P{pid}_{r}_{c} whose value() == 1
    spc,        \* lp_shapeshifter: position in solve
    active,     \* lp_sudoku: the variables "r,c,v" whose value() == 1
    filled,     \* lp_sudoku: cells whose variables the backend has fixed
    sstatus,    \* lp_sudoku: LpStatus[prob.status]
    grid,       \* lp_sudoku: the list board, row -> column -> digit (0: None)
    errors,     \* lp_sudoku: the cells at which "error" was printed
    upc         \* lp_sudoku: position of the script

loVars == <<m, n, moves, pressed, board, solution, printed, works, lpc>>

ssVars == <<sboard, board0, pieces, flips, status, ones, spc>>

suVars == <<active, filled, sstatus, grid, errors, upc>>

vars == <<loVars, ssVars, suVars>>

(***************************************************************************)
(* Bounds of the model.                                                    *)
(***************************************************************************)
MaxCells == 5      \* Lights Out boards have at most this many cells
MaxMoves == 3      \* generate_board is asked for at most this many presses
MaxPress == 2      \* the solver looks for press counts in 0..MaxPress
MaxBoardCells == 2 \* Shapeshifter boards have at most this many cells
MaxPieceCells == 2 \* the bounding boxes of the pieces have at most this many cells in all
MaxFlips == 3      \* a Shapeshifter instance has flips in 2..MaxFlips
MaxFreeCells == 3  \* cells whose variables the mapper is handed arbitrarily
MaxFreeDigits == 3 \* digits of those cells that may be active

(***************************************************************************)
(* Helpers for Python lists (0-based) and dicts.                           *)
(***************************************************************************)
len(f) == Cardinality(DOMAIN f)

RECURSIVE SumSet(_, _)
SumSet(f, S) ==
    IF S = {} THEN 0
    ELSE LET x == CHOOSE y \in S : TRUE IN f[x] + SumSet(f, S \ {x})

sum(f) == SumSet(f, DOMAIN f)

Min(S) == CHOOSE x \in S : \A y \in S : x <= y

(***************************************************************************)
(* lp_lightsout.py                                                         *)
(***************************************************************************)
neighbor_offsets == << <<0, 0>>, <<0, 1>>, <<1, 0>>, <<-1, 0>>, <<0, -1>> >>

in_bounds(r, c, mm, nn) == (0 <= r /\ r < mm) /\ (0 <= c /\ c < nn)

all_coords(mm, nn) == (0 .. mm - 1) \X (0 .. nn - 1)

\* all_coords in the order product(range(m), range(n)) yields it
coord_seq(mm, nn) ==
    [k \in 1 .. mm * nn |-> <<(k - 1) \div nn, (k - 1) % nn>>]

get_all_neighbors(r, c, mm, nn) ==
    { <<r + neighbor_offsets[k][1], c + neighbor_offsets[k][2]>> :
        k \in { j \in DOMAIN neighbor_offsets :
                  in_bounds(r + neighbor_offsets[j][1],
                            c + neighbor_offsets[j][2], mm, nn) } }

\* hit_light from the k-th offset on.  The bounds test reads the module's
\* m and n, not the board's own size; indexing the list past its end raises
\* IndexError and leaves the toggles made so far in place.
RECURSIVE hit_from(_, _, _, _, _)
hit_from(b, r, c, times, k) ==
    IF k > Len(neighbor_offsets) THEN [b |-> b, err |-> FALSE]
    ELSE LET y == r + neighbor_offsets[k][1]
             x == c + neighbor_offsets[k][2]
         IN  IF in_bounds(y, x, m, n)
             THEN IF y \in DOMAIN b /\ x \in DOMAIN b[y]
                  THEN hit_from([b EXCEPT ![y][x] = (@ + times) % 2],
                                r, c, times, k + 1)
                  ELSE [b |-> b, err |-> TRUE]
             ELSE hit_from(b, r, c, times, k + 1)

hit_light(b, r, c, times) == hit_from(b, r, c, times, 1)

\* board = [[0 for _ in range(m)] for _ in range(n)]
new_board(mm, nn) == [r \in 0 .. nn - 1 |-> [c \in 0 .. mm - 1 |-> 0]]

\* sum(chain(*board))
board_sum(b) == SumSet([r \in DOMAIN b |-> sum(b[r])], DOMAIN b)

\* lights_out_constraints with initial_state left out of the sum
lights_out_constraints_no_initial(placement_vars, initial_board) ==
    LET mm == len(initial_board)
        nn == len(initial_board[0])
    IN  \A rc \in all_coords(mm, nn) :
            LET lhs == SumSet(placement_vars,
                              get_all_neighbors(rc[1], rc[2], mm, nn))
            IN  \E factor \in 0 .. lhs : lhs = 2 * factor

\* One constraint per coordinate: initial_state + cross == 2 * factor, with
\* factor an integer variable >= 0 of the model.
lights_out_constraints(placement_vars, initial_board) ==
    LET mm == len(initial_board)
        nn == len(initial_board[0])
    IN  \A rc \in all_coords(mm, nn) :
            LET lhs == initial_board[rc[1]][rc[2]]
                       + SumSet(placement_vars,
                                get_all_neighbors(rc[1], rc[2], mm, nn))
            IN  \E factor \in 0 .. lhs : lhs = 2 * factor

minimize_moves_objective(placement_vars) == sum(placement_vars)

\* the dict of the coordinates pressed at least once
get_solution(placement_vars) ==
    [isNone |-> FALSE,
     dict   |-> [rc \in { x \in DOMAIN placement_vars : placement_vars[x] > 0 }
                   |-> placement_vars[rc]]]

None == [isNone |-> TRUE, dict |-> <<>>]

\* The assignments the solver may answer with: integer, >= 0, satisfying the
\* constraints.
Feasible(b) ==
    { pv \in [all_coords(len(b), len(b[0])) -> 0 .. MaxPress] :
        lights_out_constraints(pv, b) }

\* Every value solve(board) can return: None when the status is not
\* "Optimal", else the dict of one minimiser of the objective.
solve(b) ==
    LET F    == Feasible(b)
        best == Min({ minimize_moves_objective(pv) : pv \in F })
    IN  IF F = {} THEN {None}
        ELSE { get_solution(pv) :
                 pv \in { q \in F : minimize_moves_objective(q) = best } }

\* apply_solution's loop over solution.items(), from the k-th coordinate on
RECURSIVE apply_from(_, _, _)
apply_from(b, sol, k) ==
    LET cs == coord_seq(len(b), len(b[0]))
    IN  IF k > Len(cs) THEN [b |-> b, err |-> FALSE]
        ELSE IF cs[k] \in DOMAIN sol
             THEN LET h == hit_light(b, cs[k][1], cs[k][2], sol[cs[k]])
                  IN  IF h.err THEN h ELSE apply_from(h.b, sol, k + 1)
             ELSE apply_from(b, sol, k + 1)

apply_solution(b, sol) == apply_from(b, sol, 1)

\* The Sudoku variables of a run of another program
IdleSudoku ==
    /\ active = {}
    /\ filled = 0
    /\ sstatus = "Not Solved"
    /\ grid = <<>>
    /\ errors = {}
    /\ upc = "idle"

\* The Shapeshifter variables of a run of another program
IdleShapeshifter ==
    /\ sboard = <<>>
    /\ board0 = <<>>
    /\ pieces = <<>>
    /\ flips = 0
    /\ status = "Not Solved"
    /\ ones = {}
    /\ spc = "idle"

Dims == { d \in (1 .. MaxCells) \X (1 .. MaxCells) : d[1] * d[2] <= MaxCells }

\* The driver: m, n = ...; initial_board = generate_board(m, n, moves)
InitDriver ==
    /\ \E d \in Dims : m = d[1] /\ n = d[2] /\ board = new_board(d[1], d[2])
    /\ moves \in 0 .. MaxMoves
    /\ pressed = 0
    /\ solution = None
    /\ printed = FALSE
    /\ works = FALSE
    /\ lpc = "generate"
    /\ IdleShapeshifter
    /\ IdleSudoku

\* A caller's board of m rows and n columns, all zero: the shape that
\* hit_light's in_bounds(y, x, m, n) and all_coords(m, n) read.
InitSolve ==
    /\ \E d \in Dims :
          /\ m = d[1]
          /\ n = d[2]
          /\ board = [r \in 0 .. d[1] - 1 |-> [c \in 0 .. d[2] - 1 |-> 0]]
    /\ moves \in 0 .. MaxMoves
    /\ pressed = 0
    /\ solution = None
    /\ printed = FALSE
    /\ works = FALSE
    /\ lpc = "generate"
    /\ IdleShapeshifter
    /\ IdleSudoku

\* One iteration of generate_board's loop
GenPress ==
    /\ lpc = "generate"
    /\ pressed < moves
    /\ \E row \in 0 .. m - 1, col \in 0 .. n - 1 :
          LET h == hit_light(board, row, col, 1)
          IN  /\ board' = h.b
              /\ lpc' = IF h.err THEN "IndexError in generate_board" ELSE "generate"
              /\ pressed' = IF h.err THEN pressed ELSE pressed + 1
    /\ UNCHANGED <<m, n, moves, solution, printed, works>>
    /\ UNCHANGED <<ssVars, suVars>>

\* generate_board returns
GenReturn ==
    /\ lpc = "generate"
    /\ pressed = moves
    /\ lpc' = "solve"
    /\ UNCHANGED <<m, n, moves, pressed, board, solution, printed, works>>
    /\ UNCHANGED <<ssVars, suVars>>

\* solution = solve(initial_board); if not solution: print(...)
DriverSolve ==
    /\ lpc = "solve"
    /\ solution' \in solve(board)
    /\ printed' = (solution'.isNone \/ DOMAIN solution'.dict = {})
    /\ lpc' = "apply"
    /\ UNCHANGED <<m, n, moves, pressed, board, works>>
    /\ UNCHANGED <<ssVars, suVars>>

\* works = apply_solution(initial_board, solution)
DriverApply ==
    /\ lpc = "apply"
    /\ IF solution.isNone
       THEN /\ lpc' = "AttributeError"
            /\ UNCHANGED <<board, works>>
       ELSE LET a == apply_solution(board, solution.dict)
            IN  /\ board' = a.b
                /\ lpc' = IF a.err THEN "IndexError in apply_solution" ELSE "done"
                /\ works' = IF a.err THEN works ELSE (board_sum(a.b) = 0)
    /\ UNCHANGED <<m, n, moves, pressed, solution, printed>>
    /\ UNCHANGED <<ssVars, suVars>>

NextLightsOut == GenPress \/ GenReturn \/ DriverSolve \/ DriverApply

SpecDriver == InitDriver /\ [][NextLightsOut]_vars

SpecSolve == InitSolve /\ [][NextLightsOut]_vars

(***************************************************************************)
(* lp_shapeshifter.py                                                      *)
(***************************************************************************)
\* can_place testing the height alone
can_place_height_only(b, piece, r, c) == (r + len(piece)) <= len(b)

can_place(b, piece, r, c) ==
    ((r + len(piece)) <= len(b)) /\ ((c + len(piece[0])) <= len(b[0]))

all_coordinates(b) == (0 .. len(b) - 1) \X (0 .. len(b[0]) - 1)

\* The decision variable P{pid}_{r}_{c} is named <<pid, r, c>>.
\* The occupied cells of a piece, relative to its top-left corner
piece_cells(piece) ==
    { dd \in (0 .. len(piece) - 1) \X (0 .. len(piece[0]) - 1) :
        piece[dd[1]][dd[2]] = 1 }

\* The top-left corners at which a piece can be placed
placements(b, piece) ==
    { rc \in all_coordinates(b) : can_place(b, piece, rc[1], rc[2]) }

\* touched_by: coordinate -> the variables of the placements covering it
map_cells_to_pieces(b, ps) ==
    [rc \in all_coordinates(b) |->
        { v \in (DOMAIN ps) \X (0 .. len(b) - 1) \X (0 .. len(b[0]) - 1) :
            /\ <<v[2], v[3]>> \in placements(b, ps[v[1]])
            /\ \E dd \in piece_cells(ps[v[1]]) :
                  rc = <<v[2] + dd[1], v[3] + dd[2]>> }]

\* The variables summed by the constraint of piece pid
placeable_positions(b, ps, pid) ==
    { v \in {pid} \X (0 .. len(b) - 1) \X (0 .. len(b[0]) - 1) :
        can_place(b, ps[pid], v[2], v[3]) }

\* value is the set of the binary variables set to 1
each_piece_used_once(value, b, ps) ==
    \A pid \in DOMAIN ps :
        Cardinality(placeable_positions(b, ps, pid) \cap value) = 1

\* upBound of the quotient variables I{r},{c}
upBound(ps, fl) == (len(ps) + 1) \div fl

\* The coordinates for which all_cells_are_zero yields a constraint
constrained_coords(touched_by, b) ==
    { rc \in all_coordinates(b) : touched_by[rc] # {} }

\* all_cells_are_zero with initial_state left out of the sum
all_cells_are_zero_no_initial(value, touched_by, b, fl, ps) ==
    \A rc \in constrained_coords(touched_by, b) :
        \E q \in 0 .. upBound(ps, fl) :
            Cardinality(touched_by[rc] \cap value) = q * fl

all_cells_are_zero(value, touched_by, b, fl, ps) ==
    \A rc \in constrained_coords(touched_by, b) :
        \E q \in 0 .. upBound(ps, fl) :
            Cardinality(touched_by[rc] \cap value) + b[rc[1]][rc[2]] = q * fl

\* The variables of the problem: those that occur in a constraint
problem_vars(b, ps) ==
    UNION { placeable_positions(b, ps, pid) : pid \in DOMAIN ps }

\* The assignments that satisfy every constraint added to prob
satisfying(b, ps, fl) ==
    { value \in SUBSET problem_vars(b, ps) :
        /\ each_piece_used_once(value, b, ps)
        /\ all_cells_are_zero(value, map_cells_to_pieces(b, ps), b, fl, ps) }

apply_piece(b, piece, r, c) ==
    [i \in DOMAIN b |-> [j \in DOMAIN b[i] |->
        IF <<i - r, j - c>> \in piece_cells(piece)
        THEN b[i][j] + 1 ELSE b[i][j]]]

RECURSIVE ss_apply_solution(_, _, _)
ss_apply_solution(b, value, ps) ==
    IF value = {} THEN b
    ELSE LET v == CHOOSE w \in value : TRUE
         IN  ss_apply_solution(apply_piece(b, ps[v[1]], v[2], v[3]),
                               value \ {v}, ps)

SBoardDims ==
    { d \in (1 .. MaxBoardCells) \X (1 .. MaxBoardCells) :
        d[1] * d[2] <= MaxBoardCells }

PieceDims(budget) ==
    { d \in (1 .. budget) \X (1 .. budget) : d[1] * d[2] <= budget }

Grids(dims, values) ==
    UNION { [0 .. d[1] - 1 -> [0 .. d[2] - 1 -> values]] : d \in dims }

\* The lists of pieces whose bounding boxes have at most budget cells in all
RECURSIVE PieceLists(_)
PieceLists(budget) ==
    {<<>>} \cup
    UNION { { <<p>> \o rest :
                p \in Grids({d}, {0, 1}),
                rest \in PieceLists(budget - d[1] * d[2]) } :
            d \in PieceDims(budget) }

\* The Lights Out variables of a run of another program
IdleLightsOut ==
    /\ m = 0
    /\ n = 0
    /\ moves = 0
    /\ pressed = 0
    /\ board = <<>>
    /\ solution = None
    /\ printed = FALSE
    /\ works = FALSE
    /\ lpc = "idle"

\* solve(board, pieces, flips) is entered with a parsed instance
InitShapeshifter ==
    /\ flips \in 2 .. MaxFlips
    /\ sboard \in Grids(SBoardDims, 0 .. flips - 1)
    /\ board0 = sboard
    /\ \E ps \in PieceLists(MaxPieceCells) \ {<<>>} :
          pieces = [pid \in 0 .. Len(ps) - 1 |-> ps[pid + 1]]
    /\ status = "Not Solved"
    /\ ones = {}
    /\ spc = "start"
    /\ IdleLightsOut
    /\ IdleSudoku

\* The model is built and prob.solve() returns; the status is printed.
\* With a status other than "Optimal" the values of the variables are
\* whatever the backend left in them.
ShapeSolve ==
    /\ spc = "start"
    /\ LET sat == satisfying(sboard, pieces, flips)
       IN  IF sat # {}
           THEN status' = "Optimal" /\ ones' \in sat
           ELSE /\ status' = "Infeasible"
                /\ ones' \in SUBSET problem_vars(sboard, pieces)
    /\ spc' = "solved"
    /\ UNCHANGED <<sboard, board0, pieces, flips>>
    /\ UNCHANGED <<loVars, suVars>>

\* apply_solution(board, piece_row_col, pieces); print_board(board, flips)
ShapeApply ==
    /\ spc = "solved"
    /\ sboard' = ss_apply_solution(sboard, ones, pieces)
    /\ spc' = "applied"
    /\ UNCHANGED <<board0, pieces, flips, status, ones>>
    /\ UNCHANGED <<loVars, suVars>>

NextShapeshifter == ShapeSolve \/ ShapeApply

SpecShapeshifter == InitShapeshifter /\ [][NextShapeshifter]_vars


(***************************************************************************)
(* lp_sudoku.py                                                            *)
(***************************************************************************)
N == 9      \* range(9): rows, columns and digits
B == 3      \* range(3): boxes per side, cells per box side

Digits == 0 .. N - 1

\* The variable grid_vars[r][c][v] is named <<r, c, v>>.
\* We can only have 1 value per cell
cell_group(r, c) == { <<r, c, v>> : v \in Digits }

\* 1 of each per row
row_group(r, v) == { <<r, c, v>> : c \in Digits }

\* 1 of each per col
col_group(c, v) == { <<r, c, v>> : r \in Digits }

\* box = [[0, 0], [0, 1], ..., [2, 2]]
box == (0 .. B - 1) \X (0 .. B - 1)

\* 1 of each per box
box_group(i, j, v) == { <<B * i + dd[1], B * j + dd[2], v>> : dd \in box }

input_data ==
    { <<5, 1, 1>>, <<6, 2, 1>>, <<8, 4, 1>>, <<4, 5, 1>>, <<7, 6, 1>>,
      <<3, 1, 2>>, <<9, 3, 2>>, <<6, 7, 2>>, <<8, 3, 3>>, <<1, 2, 4>>,
      <<8, 5, 4>>, <<4, 8, 4>>, <<7, 1, 5>>, <<9, 2, 5>>, <<6, 4, 5>>,
      <<2, 6, 5>>, <<1, 8, 5>>, <<8, 9, 5>>, <<5, 2, 6>>, <<3, 5, 6>>,
      <<9, 8, 6>>, <<2, 7, 7>>, <<6, 3, 8>>, <<8, 7, 8>>, <<7, 9, 8>>,
      <<3, 4, 9>>, <<1, 5, 9>>, <<6, 6, 9>>, <<5, 8, 9>> }

\* The variables the starting numbers set to 1
clue_vars == { <<d[2] - 1, d[3] - 1, d[1] - 1>> : d \in input_data }

\* Every constraint "lpSum(group) == 1" added to prob
exclusivity_groups ==
    { cell_group(r, c) : r \in Digits, c \in Digits }
    \cup { row_group(r, v) : r \in Digits, v \in Digits }
    \cup { col_group(c, v) : c \in Digits, v \in Digits }
    \cup { box_group(i, j, v) : i \in 0 .. B - 1, j \in 0 .. B - 1, v \in Digits }

\* value (the set of the variables set to 1) satisfies every constraint
satisfies(value) ==
    /\ \A G \in exclusivity_groups : Cardinality(G \cap value) = 1
    /\ clue_vars \subseteq value

\* The backend fixes the nine variables of one cell after another, in row
\* order; the variables of the starting numbers are fixed from the start.
fixed(var, nfilled) == (var[1] * N + var[2] < nfilled) \/ (var \in clue_vars)

\* A constraint can still be satisfied: at most one of its variables is 1,
\* and exactly one once all of them are fixed.
group_ok(G, value, nfilled) ==
    LET a == Cardinality(G \cap value)
    IN  a <= 1 /\ ((\A var \in G : fixed(var, nfilled)) => a = 1)

\* the mapper writing k instead of k + 1
mapped_digit_zero_based(value, i, j) ==
    LET ks == { k \in Digits : <<i, j, k>> \in value }
    IN  IF ks = {} THEN 0 ELSE Min(ks)

\* Lines 83-94 for one cell: the digit written to board[i][j] (0: the cell
\* stays None), the first active digit plus one
mapped_digit(value, i, j) ==
    LET ks == { k \in Digits : <<i, j, k>> \in value }
    IN  IF ks = {} THEN 0 ELSE Min(ks) + 1

\* "error" is printed at a cell for every active digit after the first
prints_error(value, i, j) ==
    Cardinality({ k \in Digits : <<i, j, k>> \in value }) > 1

InitSudoku ==
    /\ active = clue_vars
    /\ filled = 0
    /\ sstatus = "Not Solved"
    /\ grid = [i \in Digits |-> [j \in Digits |-> 0]]
    /\ errors = {}
    /\ upc = "solving"
    /\ IdleLightsOut
    /\ IdleShapeshifter

\* prob.solve(), one cell of the backend's search
SolverFix ==
    /\ upc = "solving"
    /\ filled < N * N
    /\ LET r   == filled \div N
           c   == filled % N
           pre == active \cap cell_group(r, c)
       IN  \E S \in SUBSET Digits :
              LET cell  == { <<r, c, v>> : v \in S }
                  value == active \cup cell
              IN  /\ group_ok(cell_group(r, c), pre \cup cell, filled + 1)
                  /\ \A v \in Digits :
                        /\ group_ok(row_group(r, v), value, filled + 1)
                        /\ group_ok(col_group(c, v), value, filled + 1)
                        /\ group_ok(box_group(r \div B, c \div B, v),
                                    value, filled + 1)
                  /\ active' = value
    /\ filled' = filled + 1
    /\ UNCHANGED <<sstatus, grid, errors, upc>>
    /\ UNCHANGED <<loVars, ssVars>>

\* prob.solve() returns an assignment satisfying every constraint
SolverReturn ==
    /\ upc = "solving"
    /\ filled = N * N
    /\ satisfies(active)
    /\ sstatus' = "Optimal"
    /\ upc' = "solved"
    /\ UNCHANGED <<active, filled, grid, errors>>
    /\ UNCHANGED <<loVars, ssVars>>

\* board = [[None ...]]; the loops over i, j, k
MapSolution ==
    /\ upc = "solved"
    /\ grid' = [i \in Digits |-> [j \in Digits |-> mapped_digit(active, i, j)]]
    /\ errors' = { ij \in Digits \X Digits : prints_error(active, ij[1], ij[2]) }
    /\ upc' = "mapped"
    /\ UNCHANGED <<active, filled, sstatus>>
    /\ UNCHANGED <<loVars, ssVars>>

NextSudoku == SolverFix \/ SolverReturn \/ MapSolution

SpecSudoku == InitSudoku /\ [][NextSudoku]_vars

\* The solution mapper handed an assignment of any kind: the variables of
\* the first cells take any values, the others are 0.
free_vars ==
    { var \in Digits \X Digits \X Digits :
        var[1] * N + var[2] < MaxFreeCells /\ var[3] < MaxFreeDigits }

InitMapper ==
    /\ active \in SUBSET free_vars
    /\ filled = N * N
    /\ sstatus \in {"Optimal", "Infeasible", "Not Solved"}
    /\ grid = [i \in Digits |-> [j \in Digits |-> 0]]
    /\ errors = {}
    /\ upc = "solved"
    /\ IdleLightsOut
    /\ IdleShapeshifter

SpecMapper == InitMapper /\ [][MapSolution]_vars

Spec == SpecDriver

(***************************************************************************)
(* Lights Out: properties                                                  *)
(***************************************************************************)
all_zero(b) == \A r \in DOMAIN b : \A c \in DOMAIN b[r] : b[r][c] = 0

after_solve == {"apply", "done", "AttributeError", "IndexError in apply_solution"}

\* C1: a board that `pressed` presses of hit_light produced from the
\* all-zero board (so the same presses return it to all zero) is solved:
\* solve returns a solution, not None, of at most `pressed` presses in
\* total, and apply_solution with it runs to its end, leaves every cell 0
\* and returns True.
C1_SolveMinimalAndCorrect ==
    /\ lpc \in after_solve =>
          /\ ~solution.isNone
          /\ sum(solution.dict) <= pressed
    /\ lpc \notin {"AttributeError", "IndexError in apply_solution"}
    /\ lpc = "done" => works /\ all_zero(board)

\* Three presses that one press undoes: solve found the one press and
\* apply_solution cleared the board with it.
C1_Witness ==
    /\ lpc = "done"
    /\ works
    /\ all_zero(board)
    /\ pressed = 3
    /\ sum(solution.dict) = 1

\* C6: generate_board(m, n, moves) never indexes outside the board, and
\* returns a board of m rows and n columns with cells 0 or 1 that at most
\* `moves` presses return to all zero.
C6_GenerateBoard ==
    /\ lpc # "IndexError in generate_board"
    /\ lpc = "solve" =>
          /\ len(board) = m
          /\ len(board[0]) = n
          /\ \A r \in DOMAIN board : \A c \in DOMAIN board[r] :
                board[r][c] \in {0, 1}
          /\ \E pv \in Feasible(board) : sum(pv) <= moves

\* C10: once solve has returned, "This board is unsolvable." has been
\* printed if and only if solve returned None.
C10_UnsolvableIffNone ==
    lpc \in after_solve => (printed <=> solution.isNone)

(***************************************************************************)
(* Shapeshifter: properties                                                *)
(***************************************************************************)
\* The number of chosen placements that cover the coordinate rc
touches(value, ps, rc) ==
    Cardinality({ v \in value :
        \E dd \in piece_cells(ps[v[1]]) : rc = <<v[2] + dd[1], v[3] + dd[2]>> })

\* The bounding box of the piece exceeds the board in height or in width
oversize(b, piece) == len(piece) > len(b) \/ len(piece[0]) > len(b[0])

\* C2: when the solver answers with a satisfying assignment, every piece
\* has exactly one placement variable at 1, and once apply_solution has
\* stamped the placements every cell touched by one of them holds its
\* initial value plus its touches, which is 0 modulo flips.
C2_SolvedInstance ==
    status = "Optimal" =>
        /\ \A pid \in DOMAIN pieces :
              Cardinality({ v \in ones : v[1] = pid }) = 1
        /\ spc = "applied" =>
              \A rc \in all_coordinates(board0) :
                  touches(ones, pieces, rc) >= 1 =>
                      /\ sboard[rc[1]][rc[2]]
                           = board0[rc[1]][rc[2]] + touches(ones, pieces, rc)
                      /\ sboard[rc[1]][rc[2]] % flips = 0

\* A solved instance with a cell stamped twice and a cell left untouched
C2_Witness ==
    /\ spc = "applied"
    /\ status = "Optimal"
    /\ \E rc \in all_coordinates(board0) : touches(ones, pieces, rc) = 2
    /\ \E rc \in all_coordinates(board0) : touches(ones, pieces, rc) = 0

\* C4: apply_solution is run only after the status "Optimal", and with
\* any other status the board is left as it was.
C4_MappingOnlyWhenSolved ==
    /\ spc = "applied" => status = "Optimal"
    /\ status # "Optimal" => sboard = board0

\* C5: a piece whose bounding box exceeds the board can be placed nowhere,
\* is in no coordinate's influence list, has an exclusivity constraint over
\* no variable at all, and makes the solver answer "Infeasible".
C5_OversizePiece ==
    \A pid \in DOMAIN pieces :
        oversize(board0, pieces[pid]) =>
            /\ \A rc \in all_coordinates(board0) :
                  ~can_place(board0, pieces[pid], rc[1], rc[2])
            /\ \A rc \in all_coordinates(board0) :
                  \A v \in map_cells_to_pieces(board0, pieces)[rc] : v[1] # pid
            /\ placeable_positions(board0, pieces, pid) = {}
            /\ satisfying(board0, pieces, flips) = {}
            /\ spc # "start" => status = "Infeasible"

\* An instance with a piece wider than the board, after the run
C5_Witness ==
    /\ spc = "applied"
    /\ status = "Infeasible"
    /\ \E pid \in DOMAIN pieces :
          /\ len(pieces[pid][0]) > len(board0[0])
          /\ len(pieces[pid]) <= len(board0)
          /\ piece_cells(pieces[pid]) # {}

\* C7: whenever one feasible placement per piece makes initial value plus
\* touches divisible by flips at every cell, every cell's quotient is at
\* most (number of pieces + 1) // flips, so the solver, given the bounded
\* model, finds the instance feasible.
C7_QuotientBoundHarmless ==
    \A value \in SUBSET problem_vars(board0, pieces) :
        ( /\ each_piece_used_once(value, board0, pieces)
          /\ \A rc \in all_coordinates(board0) :
                (board0[rc[1]][rc[2]] + touches(value, pieces, rc)) % flips = 0 )
        => /\ \A rc \in all_coordinates(board0) :
                 (board0[rc[1]][rc[2]] + touches(value, pieces, rc)) \div flips
                     <= upBound(pieces, flips)
           /\ spc # "start" => status = "Optimal"

\* C8: a coordinate that no feasible placement covers and whose initial
\* value is not 0 modulo flips still gets its constraint, and the instance
\* is reported infeasible.
C8_EmptyInfluenceInfeasible ==
    \A rc \in all_coordinates(board0) :
        ( /\ map_cells_to_pieces(board0, pieces)[rc] = {}
          /\ board0[rc[1]][rc[2]] % flips # 0 )
        => /\ rc \in constrained_coords(map_cells_to_pieces(board0, pieces),
                                        board0)
           /\ spc # "start" => status = "Infeasible"

(***************************************************************************)
(* Sudoku: properties                                                      *)
(***************************************************************************)
\* C3: the grid the mapper assembles from an assignment that satisfies
\* every constraint has each digit 1..9 exactly once in every row, column
\* and 3x3 box, and every starting number (v, r, c) at board[r-1][c-1].
C3_SolvedGridValid ==
    (upc = "mapped" /\ satisfies(active)) =>
        /\ \A r \in Digits, d \in 1 .. N :
              Cardinality({ c \in Digits : grid[r][c] = d }) = 1
        /\ \A c \in Digits, d \in 1 .. N :
              Cardinality({ r \in Digits : grid[r][c] = d }) = 1
        /\ \A i \in 0 .. B - 1, j \in 0 .. B - 1, d \in 1 .. N :
              Cardinality({ dd \in box :
                  grid[B * i + dd[1]][B * j + dd[2]] = d }) = 1
        /\ \A clue \in input_data : grid[clue[2] - 1][clue[3] - 1] = clue[1]

\* The solver's assignment has been mapped to a full grid
C3_Witness ==
    /\ upc = "mapped"
    /\ sstatus = "Optimal"
    /\ satisfies(active)
    /\ \A r \in Digits, c \in Digits : grid[r][c] \in 1 .. N

\* C9: after the mapper has run, every cell with no active digit or with
\* more than one has been reported.
C9_InconsistentCellReported ==
    upc = "mapped" =>
        \A ij \in Digits \X Digits :
            Cardinality({ k \in Digits : <<ij[1], ij[2], k>> \in active }) # 1
                => ij \in errors

====
